---- MODULE Spec2Model ----
(***************************************************************************)
(* Model of streamlit_app.py: three data frames loaded once, four tabs     *)
(* rendered top to bottom on every rerun of the script, one rerun per      *)
(* widget event.  A data frame is a sequence of rows in file order.        *)
(***************************************************************************)
EXTENDS Integers, Sequences, FiniteSets, TLC

VARIABLES crop_prices_df, cropland_values_df, price_index_df,
          active_tab, session_state, tab1, tab2, tab3, tab4, load_error

vars == <<crop_prices_df, cropland_values_df, price_index_df,
          active_tab, session_state, tab1, tab2, tab3, tab4, load_error>>

----------------------------------------------------------------------------
(* Bounds of the model *)

\* longest CSV file drawn for a series
MaxRows == 2

----------------------------------------------------------------------------
(* Floating point values as the statistics produce them: a fraction        *)
(* num/den, NaN, or an infinity.  NoData and Absent are not floats: the     *)
(* first is 'this statistic has no data', the second 'not displayed'.       *)

Num(n) == [kind |-> "num", num |-> n, den |-> 1]
Frac(n, d) == [kind |-> "num", num |-> n, den |-> d]
NaN == [kind |-> "nan", num |-> 0, den |-> 1]
PosInf == [kind |-> "inf", num |-> 1, den |-> 1]
NegInf == [kind |-> "inf", num |-> 0 - 1, den |-> 1]
NoData == [kind |-> "nodata", num |-> 0, den |-> 1]
Absent == [kind |-> "absent", num |-> 0, den |-> 1]

IsNum(x) == x.kind = "num"

\* equality of two displayed values (fractions by cross multiplication)
FEq(a, b) ==
    IF IsNum(a) /\ IsNum(b) THEN a.num * b.den = b.num * a.den
    ELSE a.kind = b.kind /\ a.num = b.num

\* a < b for two fractions with positive denominators
FLess(a, b) == a.num * b.den < b.num * a.den

\* numpy float division x / y
FDiv(x, y) ==
    IF ~IsNum(x) \/ ~IsNum(y) THEN NaN
    ELSE IF y.num = 0
         THEN IF x.num = 0 THEN NaN
              ELSE IF x.num > 0 THEN PosInf ELSE NegInf
    ELSE IF y.num > 0 THEN Frac(x.num * y.den, x.den * y.num)
    ELSE Frac(0 - (x.num * y.den), 0 - (x.den * y.num))

FSub(x, y) ==
    IF ~IsNum(x) \/ ~IsNum(y) THEN NaN
    ELSE Frac(x.num * y.den - y.num * x.den, x.den * y.den)

FAdd(x, y) ==
    IF ~IsNum(x) \/ ~IsNum(y) THEN NaN
    ELSE Frac(x.num * y.den + y.num * x.den, x.den * y.den)

\* x * y for a positive number y
FMul(x, y) ==
    IF x.kind = "inf" /\ IsNum(y) THEN x
    ELSE IF ~IsNum(x) \/ ~IsNum(y) THEN NaN
    ELSE Frac(x.num * y.num, x.den * y.den)

----------------------------------------------------------------------------
(* Sequences helpers *)

Range(s) == {s[i] : i \in DOMAIN s}
Years(df) == {df[i].Year : i \in DOMAIN df}

SetMax(S) == CHOOSE x \in S : \A y \in S : y <= x
SetMin(S) == CHOOSE x \in S : \A y \in S : x <= y

\* sequences without repetition over S, of every length (a multiselect's value)
Selections(S) ==
    {s \in UNION {[1..n -> S] : n \in 0..Cardinality(S)} :
        \A i, j \in DOMAIN s : i # j => s[i] # s[j]}

\* sequences over S of length at most n
SeqUpTo(S, n) == UNION {[1..k -> S] : k \in 0..n}

----------------------------------------------------------------------------
(* pandas reductions over the Value column of a frame; NaN is skipped *)

NonNaN(data) == SelectSeq(data, LAMBDA r : IsNum(r.Value))

RECURSIVE SumValues(_)
SumValues(data) ==
    IF data = <<>> THEN 0 ELSE Head(data).Value.num + SumValues(Tail(data))

RECURSIVE SumSquares(_)
SumSquares(data) ==
    IF data = <<>> THEN 0
    ELSE Head(data).Value.num * Head(data).Value.num + SumSquares(Tail(data))

\* Series.mean()
Mean(data) ==
    LET v == NonNaN(data)
    IN  IF v = <<>> THEN NaN ELSE Frac(SumValues(v), Len(v))

\* Series.min()
Min(data) ==
    LET v == NonNaN(data)
    IN  IF v = <<>> THEN NaN ELSE Num(SetMin({v[i].Value.num : i \in DOMAIN v}))

\* Series.max()
Max(data) ==
    LET v == NonNaN(data)
    IN  IF v = <<>> THEN NaN ELSE Num(SetMax({v[i].Value.num : i \in DOMAIN v}))

\* Series.std(), N-1 divisor; the value kept is the variance (std squared)
Std(data) ==
    LET v == NonNaN(data)
        n == Len(v)
    IN  IF n < 2 THEN NaN
        ELSE Frac(n * SumSquares(v) - SumValues(v) * SumValues(v), n * (n - 1))

\* Series.iloc[0] and Series.iloc[-1] of a non-empty frame: positions in file order
ILocFirst(data) == data[1]
ILocLast(data) == data[Len(data)]

----------------------------------------------------------------------------
(* Widgets *)

\* st.selectbox over no options returns None; None compares False with every year
NoYear == 0

\* a selectbox's options: sorted(df['Year'].unique())
YearOptions(df) == Years(df)
FirstOption(df) == IF df = <<>> THEN NoYear ELSE SetMin(Years(df))
LastOption(df) == IF df = <<>> THEN NoYear ELSE SetMax(Years(df))

\* one displayed block of statistics
Entry(key, latest, latest_year, average, min, max, volatility, growth_rate, peak_year) ==
    [key |-> key, latest |-> latest, latest_year |-> latest_year,
     average |-> average, min |-> min, max |-> max,
     volatility |-> volatility, growth_rate |-> growth_rate, peak_year |-> peak_year]

\* what a tab left on the page
TabOut(outcome, start_year, end_year, filtered, view, stats) ==
    [outcome |-> outcome, start_year |-> start_year, end_year |-> end_year,
     filtered |-> filtered, view |-> view, stats |-> stats]

NotRun == TabOut("not_run", NoYear, NoYear, <<>>, "none", <<>>)
Raised == TabOut("raised", NoYear, NoYear, <<>>, "none", <<>>)

----------------------------------------------------------------------------
(* Tab 1: crop prices *)

crops_of_interest == <<"CORN", "SOYBEANS", "WHEAT">>
CropZoomOptions == {"Full View", "Last 10 Years", "Last 20 Years", "Custom Range"}

\* max()/min() of an empty column raise ValueError
CropZoomRaises(df, zoom) == zoom # "Custom Range" /\ df = <<>>

\* a mutant of CropRange: "Last 10 Years" keeps the End Year picker
CropRangeKeepsEnd(df, zoom, start, end) ==
    IF zoom = "Last 10 Years" THEN <<SetMax(Years(df)) - 9, end>>
    ELSE IF zoom = "Last 20 Years" THEN <<SetMax(Years(df)) - 19, SetMax(Years(df))>>
    ELSE IF zoom = "Full View" THEN <<SetMin(Years(df)), SetMax(Years(df))>>
    ELSE <<start, end>>

\* the zoom presets applied after the pickers
CropRange(df, zoom, start, end) ==
    IF zoom = "Last 10 Years" THEN <<SetMax(Years(df)) - 9, SetMax(Years(df))>>
    ELSE IF zoom = "Last 20 Years" THEN <<SetMax(Years(df)) - 19, SetMax(Years(df))>>
    ELSE IF zoom = "Full View" THEN <<SetMin(Years(df)), SetMax(Years(df))>>
    ELSE <<start, end>>

\* a mutant of crop_filtered: the end year is left out
crop_filtered_open_end(df, start, end, selected_crops) ==
    SelectSeq(df, LAMBDA r : /\ r.Year >= start
                             /\ r.Year < end
                             /\ r.Commodity \in Range(selected_crops))

\* a mutant of crop_filtered: no selection is taken as no restriction
crop_filtered_all_when_none(df, start, end, selected_crops) ==
    SelectSeq(df, LAMBDA r : /\ r.Year >= start
                             /\ r.Year <= end
                             /\ (selected_crops = <<>>
                                   \/ r.Commodity \in Range(selected_crops)))

crop_filtered(df, start, end, selected_crops) ==
    SelectSeq(df, LAMBDA r : /\ r.Year >= start
                             /\ r.Year <= end
                             /\ r.Commodity \in Range(selected_crops))

\* the three metric cards of the single crop view
CropSingle(crop, crop_data) ==
    Entry(crop,
          IF Len(crop_data) > 0 THEN ILocFirst(crop_data).Value ELSE Num(0),
          IF Len(crop_data) > 0 THEN Num(ILocFirst(crop_data).Year) ELSE NoData,
          Mean(crop_data), Min(crop_data), Max(crop_data), Std(crop_data), Absent, Absent)

\* one column of the multi crop view
CropMultiEntry(crop, crop_data) ==
    Entry(crop,
          IF Len(crop_data) > 0 THEN ILocFirst(crop_data).Value ELSE Num(0),
          Absent, Mean(crop_data), Min(crop_data), Max(crop_data), Absent, Absent, Absent)

RECURSIVE CropMultiEveryKey(_, _)
\* a mutant of CropMulti: a crop without rows in range gets a column too
CropMultiEveryKey(selected_crops, filtered) ==
    IF selected_crops = <<>> THEN <<>>
    ELSE <<CropMultiEntry(Head(selected_crops),
              SelectSeq(filtered, LAMBDA r : r.Commodity = Head(selected_crops)))>>
         \o CropMultiEveryKey(Tail(selected_crops), filtered)

RECURSIVE CropMulti(_, _)
\* the loop over selected_crops: a crop without rows in range gets no column
CropMulti(selected_crops, filtered) ==
    IF selected_crops = <<>> THEN <<>>
    ELSE LET crop == Head(selected_crops)
             crop_data == SelectSeq(filtered, LAMBDA r : r.Commodity = crop)
         IN  (IF crop_data # <<>> THEN <<CropMultiEntry(crop, crop_data)>> ELSE <<>>)
             \o CropMulti(Tail(selected_crops), filtered)

\* the whole "with tab1:" block
Tab1(df, ss) ==
    IF CropZoomRaises(df, ss.crop_zoom) THEN Raised
    ELSE
    LET range == CropRange(df, ss.crop_zoom, ss.crop_start, ss.crop_end)
        selected_crops == ss.selected_crops
        filtered == crop_filtered(df, range[1], range[2], selected_crops)
    IN  IF df # <<>> /\ Len(selected_crops) > 0
        THEN IF Len(selected_crops) = 0
             THEN TabOut("chart", range[1], range[2], filtered, "warning", <<>>)
             ELSE IF Len(selected_crops) = 1
             THEN TabOut("chart", range[1], range[2], filtered, "single",
                    <<CropSingle(selected_crops[1],
                        SelectSeq(filtered, LAMBDA r : r.Commodity = selected_crops[1]))>>)
             ELSE TabOut("chart", range[1], range[2], filtered, "multi",
                    CropMulti(selected_crops, filtered))
        ELSE TabOut("error", range[1], range[2], filtered, "none", <<>>)

----------------------------------------------------------------------------
(* Tab 2: cropland values *)

states_of_interest == <<"KENTUCKY", "INDIANA", "OHIO", "TENNESSEE">>
LandZoomOptions == {"Full View", "Last 5 Years", "Last 10 Years", "Custom Range"}

LandZoomRaises(df, zoom) == zoom # "Custom Range" /\ df = <<>>

\* a mutant of LandRange: "Last 5 Years" keeps the End Year picker
LandRangeKeepsEnd(df, zoom, start, end) ==
    IF zoom = "Last 5 Years" THEN <<SetMax(Years(df)) - 4, end>>
    ELSE IF zoom = "Last 10 Years" THEN <<SetMax(Years(df)) - 9, SetMax(Years(df))>>
    ELSE IF zoom = "Full View" THEN <<SetMin(Years(df)), SetMax(Years(df))>>
    ELSE <<start, end>>

LandRange(df, zoom, start, end) ==
    IF zoom = "Last 5 Years" THEN <<SetMax(Years(df)) - 4, SetMax(Years(df))>>
    ELSE IF zoom = "Last 10 Years" THEN <<SetMax(Years(df)) - 9, SetMax(Years(df))>>
    ELSE IF zoom = "Full View" THEN <<SetMin(Years(df)), SetMax(Years(df))>>
    ELSE <<start, end>>

land_filtered(df, start, end, selected_states) ==
    SelectSeq(df, LAMBDA r : /\ r.Year >= start
                             /\ r.Year <= end
                             /\ r.State \in Range(selected_states))

\* (iloc[0] - iloc[-1]) / iloc[-1] * 100 if len(state_data) > 1 else 0
growth_rate(state_data) ==
    IF Len(state_data) > 1
    THEN FMul(FDiv(FSub(ILocFirst(state_data).Value, ILocLast(state_data).Value),
                   ILocLast(state_data).Value),
              Num(100))
    ELSE Num(0)

\* the three metric cards of the single state view
LandSingle(state, state_data) ==
    Entry(state,
          IF Len(state_data) > 0 THEN ILocFirst(state_data).Value ELSE Num(0),
          IF Len(state_data) > 0 THEN Num(ILocFirst(state_data).Year) ELSE NoData,
          Mean(state_data), Absent, Absent, Absent, growth_rate(state_data), Absent)

LandMultiEntry(state, state_data) ==
    Entry(state,
          IF Len(state_data) > 0 THEN ILocFirst(state_data).Value ELSE Num(0),
          Absent, Mean(state_data), Min(state_data), Max(state_data),
          Absent, Absent, Absent)

RECURSIVE LandMulti(_, _)
LandMulti(selected_states, filtered) ==
    IF selected_states = <<>> THEN <<>>
    ELSE LET state == Head(selected_states)
             state_data == SelectSeq(filtered, LAMBDA r : r.State = state)
         IN  (IF state_data # <<>> THEN <<LandMultiEntry(state, state_data)>> ELSE <<>>)
             \o LandMulti(Tail(selected_states), filtered)

\* the whole "with tab2:" block
Tab2(df, ss) ==
    IF LandZoomRaises(df, ss.land_zoom) THEN Raised
    ELSE
    LET range == LandRange(df, ss.land_zoom, ss.land_start, ss.land_end)
        selected_states == ss.selected_states
        filtered == land_filtered(df, range[1], range[2], selected_states)
    IN  IF df # <<>> /\ Len(selected_states) > 0
        THEN IF Len(selected_states) = 0
             THEN TabOut("chart", range[1], range[2], filtered, "warning", <<>>)
             ELSE IF Len(selected_states) = 1
             THEN TabOut("chart", range[1], range[2], filtered, "single",
                    <<LandSingle(selected_states[1],
                        SelectSeq(filtered, LAMBDA r : r.State = selected_states[1]))>>)
             ELSE TabOut("chart", range[1], range[2], filtered, "multi",
                    LandMulti(selected_states, filtered))
        ELSE TabOut("error", range[1], range[2], filtered, "none", <<>>)

----------------------------------------------------------------------------
(* Tab 3: price received index *)

IndexZoomOptions ==
    {"Full View", "Last 5 Years", "Last 10 Years", "Since 2010", "Custom Range"}

Since2010 == 2010

IndexZoomRaises(df, zoom) == zoom # "Custom Range" /\ df = <<>>

IndexRange(df, zoom, start, end) ==
    IF zoom = "Last 5 Years" THEN <<SetMax(Years(df)) - 4, SetMax(Years(df))>>
    ELSE IF zoom = "Last 10 Years" THEN <<SetMax(Years(df)) - 9, SetMax(Years(df))>>
    ELSE IF zoom = "Since 2010" THEN <<Since2010, SetMax(Years(df))>>
    ELSE IF zoom = "Full View" THEN <<SetMin(Years(df)), SetMax(Years(df))>>
    ELSE <<start, end>>

index_filtered(df, start, end) ==
    SelectSeq(df, LAMBDA r : r.Year >= start /\ r.Year <= end)

\* Series.idxmax(): the first row, in file order, holding the maximum
IdxMax(data) ==
    CHOOSE i \in DOMAIN data :
        /\ IsNum(data[i].Value)
        /\ FEq(data[i].Value, Max(data))
        /\ \A j \in 1..(i - 1) : ~(IsNum(data[j].Value) /\ FEq(data[j].Value, Max(data)))

\* idxmax over a column holding only NaN finds no row, and .loc[] then fails
PeakRaises(data) == data # <<>> /\ NonNaN(data) = <<>>

\* the three metric cards of the index tab
IndexStats(data) ==
    Entry("NATIONAL", ILocFirst(data).Value, Num(ILocFirst(data).Year),
          Mean(data), Absent, Max(data), Absent, Absent, Num(data[IdxMax(data)].Year))

\* the whole "with tab3:" block
Tab3(df, ss) ==
    IF IndexZoomRaises(df, ss.index_zoom) THEN Raised
    ELSE
    LET range == IndexRange(df, ss.index_zoom, ss.index_start, ss.index_end)
        filtered == index_filtered(df, range[1], range[2])
    IN  IF df # <<>>
        THEN IF Len(filtered) > 0
             THEN IF PeakRaises(filtered) THEN Raised
                  ELSE TabOut("chart", range[1], range[2], filtered, "single",
                              <<IndexStats(filtered)>>)
             ELSE TabOut("chart", range[1], range[2], filtered, "none", <<>>)
        ELSE TabOut("error", range[1], range[2], filtered, "none", <<>>)

----------------------------------------------------------------------------
(* Tab 4: combined view *)

CombinedZoomOptions ==
    {"Custom Range", "Last 10 Years", "Last 15 Years", "Since 2000",
     "Full Range (1997-2025)"}

\* list(range(1990, 2026)), the options of both pickers
CombinedYearOptions == 1990..2025

\* the hard-coded presets applied after the pickers
CombinedRange(zoom, start, end) ==
    IF zoom = "Last 10 Years" THEN <<2015, 2025>>
    ELSE IF zoom = "Last 15 Years" THEN <<2010, 2025>>
    ELSE IF zoom = "Since 2000" THEN <<2000, 2025>>
    ELSE IF zoom = "Full Range (1997-2025)" THEN <<1997, 2025>>
    ELSE <<start, end>>

\* df[(df['Year'] >= start) & (df['Year'] <= end)]
RestrictYears(df, start, end) ==
    SelectSeq(df, LAMBDA r : r.Year >= start /\ r.Year <= end)

RECURSIVE SortedYears(_)
SortedYears(S) ==
    IF S = {} THEN <<>> ELSE <<SetMin(S)>> \o SortedYears(S \ {SetMin(S)})

\* land_combined.groupby('Year')['Value'].mean().reset_index(): one row a year, ascending
land_avg_by_year(land_combined) ==
    LET ys == SortedYears(Years(land_combined))
    IN  [i \in DOMAIN ys |->
            [Year |-> ys[i],
             Avg_Value |-> Mean(SelectSeq(land_combined, LAMBDA r : r.Year = ys[i]))]]

RECURSIVE AvgMax(_)
\* land_avg_by_year['Avg_Value'].max()
AvgMax(avg) ==
    IF avg = <<>> THEN NaN
    ELSE LET h == Head(avg).Avg_Value
             t == AvgMax(Tail(avg))
         IN  IF ~IsNum(h) THEN t
             ELSE IF ~IsNum(t) THEN h
             ELSE IF FLess(h, t) THEN t ELSE h

RECURSIVE AvgSum(_)
AvgSum(avg) ==
    IF avg = <<>> THEN Num(0) ELSE FAdd(Head(avg).Avg_Value, AvgSum(Tail(avg)))

\* land_avg_by_year['Avg_Value'].mean()
AvgMean(avg) ==
    LET v == SelectSeq(avg, LAMBDA r : IsNum(r.Avg_Value))
    IN  IF v = <<>> THEN NaN ELSE FDiv(AvgSum(v), Num(Len(v)))

\* index_max / land_max * 100
scale_factor(index_combined, avg) ==
    FMul(FDiv(Max(index_combined), AvgMax(avg)), Num(100))

Corn(crop_combined) == SelectSeq(crop_combined, LAMBDA r : r.Commodity = "CORN")

\* a mutant of common_years: the years of the corn rows, whatever the index holds
common_years_of_corn(crop_combined, index_combined) ==
    Years(Corn(crop_combined))

\* corn_data.index.intersection(index_data.index)
common_years(crop_combined, index_combined) ==
    Years(Corn(crop_combined)) \cap Years(index_combined)

\* what the combined view left on the page
Combined(outcome, first, last, crop, land, index, traces, avg, scale, metrics, years) ==
    [outcome |-> outcome, start_year |-> first, end_year |-> last,
     crop_combined |-> crop, land_combined |-> land,
     index_combined |-> index, traces |-> traces,
     land_avg_by_year |-> avg, scale_factor |-> scale, metrics |-> metrics,
     correlation_years |-> years]

\* a mutant of Overlap: the cropland frame is not looked at
OverlapWithoutLand(crop_combined, land_combined, index_combined) ==
    crop_combined # <<>> /\ index_combined # <<>>

\* not crop_combined.empty and not land_combined.empty and not index_combined.empty
Overlap(crop_combined, land_combined, index_combined) ==
    crop_combined # <<>> /\ land_combined # <<>> /\ index_combined # <<>>

NoMetrics ==
    [avg_corn |-> Absent, avg_index |-> Absent, current_index |-> Absent,
     avg_land |-> Absent, current_land |-> Absent, correlation |-> FALSE]

NotRun4 == Combined("not_run", NoYear, NoYear, <<>>, <<>>, <<>>, {}, <<>>, Absent,
                    NoMetrics, {})

\* the whole "with tab4:" block; the value of the correlation is not modelled,
\* only whether it is shown and the years it is computed over
Tab4(crop_df, land_df, index_df, ss) ==
    LET range == CombinedRange(ss.combined_zoom, ss.combined_start, ss.combined_end)
        crop_combined == RestrictYears(crop_df, range[1], range[2])
        land_combined == RestrictYears(land_df, range[1], range[2])
        index_combined == RestrictYears(index_df, range[1], range[2])
        avg == land_avg_by_year(land_combined)
        common == common_years(crop_combined, index_combined)
        shown == /\ Len(Corn(crop_combined)) > 0
                 /\ Len(index_combined) > 0
                 /\ Cardinality(common) > 1
    IN  IF Overlap(crop_combined, land_combined, index_combined)
        THEN Combined("combined", range[1], range[2],
                 crop_combined, land_combined, index_combined,
                 {crops_of_interest[i] : i \in
                     {j \in DOMAIN crops_of_interest :
                        \E k \in DOMAIN crop_combined :
                            crop_combined[k].Commodity = crops_of_interest[j]}}
                   \cup {"Price Index"}
                   \cup (IF avg # <<>> THEN {"Avg Cropland Value"} ELSE {}),
                 avg,
                 IF avg # <<>> /\ index_combined # <<>>
                 THEN scale_factor(index_combined, avg) ELSE Absent,
                 [avg_corn |-> Mean(Corn(crop_combined)),
                  avg_index |-> Mean(index_combined),
                  current_index |-> ILocFirst(index_combined).Value,
                  avg_land |-> IF avg # <<>> THEN AvgMean(avg) ELSE Absent,
                  current_land |-> IF avg # <<>> THEN ILocLast(avg).Avg_Value ELSE Absent,
                  correlation |-> shown],
                 IF shown THEN common ELSE {})
        ELSE Combined("insufficient", range[1], range[2],
                 crop_combined, land_combined, index_combined,
                 {}, <<>>, Absent, NoMetrics, {})

----------------------------------------------------------------------------
(* The cached loaders.  A cell of a CSV file is a number or a text that is   *)
(* not one; a loaded row holds its year as an integer and its value as a    *)
(* float.                                                                   *)

\* a CSV cell that does not parse as a number, such as "(D)"
Text == [kind |-> "text", num |-> 0, den |-> 1]

\* pd.to_numeric(column, errors='coerce'): what is not a number becomes NaN
to_numeric(cell) == IF cell.kind = "text" THEN NaN ELSE cell

\* the Value and Year columns of a frame coerced
Coerced(df) ==
    [i \in DOMAIN df |->
        [df[i] EXCEPT !.Value = to_numeric(@), !.Year = to_numeric(@)]]

\* df[(df['Year'] >= first) & (df['Year'] <= last)]: NaN compares False
YearWindow(df, first, last) ==
    SelectSeq(df, LAMBDA r : /\ IsNum(r.Year)
                             /\ r.Year.num >= first * r.Year.den
                             /\ r.Year.num <= last * r.Year.den)

\* the rows as the tabs read them: the year of a kept row is a whole number
Frame(df) == [i \in DOMAIN df |-> [df[i] EXCEPT !.Year = @.num \div @.den]]

load_crop_prices(csv) ==
    Frame(YearWindow(
        Coerced(SelectSeq(csv, LAMBDA r : /\ r.GeoLevel = "NATIONAL"
                                          /\ r.Commodity \in Range(crops_of_interest))),
        1975, 2025))

\* .astype(float) raises ValueError on a cell that is not a number, in any row
\* of the four states
LandValueRaises(csv) ==
    \E i \in DOMAIN csv :
        csv[i].State \in Range(states_of_interest) /\ csv[i].Value.kind = "text"

\* the cropland loader when .astype(float) does not raise
load_cropland_values(csv) ==
    Frame(YearWindow(
        Coerced(SelectSeq(csv, LAMBDA r : r.State \in Range(states_of_interest))),
        1997, 2025))

load_price_received_index(csv) ==
    Frame(YearWindow(
        Coerced(SelectSeq(csv, LAMBDA r : r.GeoLevel = "NATIONAL")),
        1990, 2025))

----------------------------------------------------------------------------
(* Sample CSV rows the files are drawn from *)

CropCsv(g, c, y, v) ==
    [GeoLevel |-> g, Commodity |-> c, Year |-> Num(y), Value |-> Num(v)]
LandCsv(s, y, v) == [State |-> s, Year |-> Num(y), Value |-> Num(v)]
IndexCsv(g, y, v) == [GeoLevel |-> g, Year |-> Num(y), Value |-> Num(v)]

CropCsvRows ==
    {CropCsv("NATIONAL", "CORN", 2015, 10), CropCsv("NATIONAL", "CORN", 2025, 60),
     CropCsv("NATIONAL", "WHEAT", 2016, 60), CropCsv("NATIONAL", "WHEAT", 2025, 10),
     CropCsv("NATIONAL", "SOYBEANS", 2005, 10), CropCsv("STATE", "CORN", 2025, 10),
     [CropCsv("NATIONAL", "CORN", 2020, 0) EXCEPT !.Value = Text]}

LandCsvRows ==
    {LandCsv("KENTUCKY", 1997, 10), LandCsv("KENTUCKY", 2025, 60),
     LandCsv("KENTUCKY", 2021, 0), LandCsv("OHIO", 2016, 60),
     LandCsv("INDIANA", 2025, 10), LandCsv("KENTUCKY", 1996, 10),
     [LandCsv("KENTUCKY", 2016, 0) EXCEPT !.Value = Text],
     [LandCsv("OHIO", 0, 10) EXCEPT !.Year = Text]}

IndexCsvRows ==
    {IndexCsv("NATIONAL", 2009, 100), IndexCsv("NATIONAL", 2011, 100),
     IndexCsv("NATIONAL", 2010, 95), IndexCsv("NATIONAL", 2025, 95),
     IndexCsv("NATIONAL", 1990, 100), IndexCsv("NATIONAL", 1989, 95),
     [IndexCsv("NATIONAL", 2012, 0) EXCEPT !.Value = Text]}

\* the rows the files of a combined-view session are drawn from
CombinedCropCsvRows ==
    {CropCsv("NATIONAL", "CORN", 2016, 10), CropCsv("NATIONAL", "CORN", 2025, 60),
     CropCsv("NATIONAL", "WHEAT", 2016, 60)}
CombinedLandCsvRows ==
    {LandCsv("KENTUCKY", 2016, 60), LandCsv("KENTUCKY", 2025, 0),
     LandCsv("OHIO", 2016, 10)}
CombinedIndexCsvRows ==
    {IndexCsv("NATIONAL", 2016, 100), IndexCsv("NATIONAL", 2025, 95),
     IndexCsv("NATIONAL", 1990, 95)}

\* the file of a series the session does not vary
DefaultCropCsv ==
    <<CropCsv("NATIONAL", "CORN", 2025, 60), CropCsv("NATIONAL", "CORN", 2016, 10)>>
DefaultLandCsv ==
    <<LandCsv("KENTUCKY", 2025, 60), LandCsv("KENTUCKY", 2016, 10)>>
DefaultIndexCsv ==
    <<IndexCsv("NATIONAL", 2025, 95), IndexCsv("NATIONAL", 2016, 100)>>

\* years offered to the pickers of the combined view
CombinedYearSamples == {1990, 1997, 2016, 2025}

\* the three files a session on a tab is loaded from: the tab's own series is
\* drawn from its sample rows; for the combined view one of the three is
CsvFiles(tab) ==
    IF tab = 1
    THEN {<<c, DefaultLandCsv, DefaultIndexCsv>> : c \in SeqUpTo(CropCsvRows, MaxRows)}
    ELSE IF tab = 2
    THEN {<<DefaultCropCsv, l, DefaultIndexCsv>> : l \in SeqUpTo(LandCsvRows, MaxRows)}
    ELSE IF tab = 3
    THEN {<<DefaultCropCsv, DefaultLandCsv, i>> : i \in SeqUpTo(IndexCsvRows, MaxRows)}
    ELSE {<<c, DefaultLandCsv, DefaultIndexCsv>> :
              c \in SeqUpTo(CombinedCropCsvRows, MaxRows)}
         \cup {<<DefaultCropCsv, l, DefaultIndexCsv>> :
              l \in SeqUpTo(CombinedLandCsvRows, MaxRows)}
         \cup {<<DefaultCropCsv, DefaultLandCsv, i>> :
              i \in SeqUpTo(CombinedIndexCsvRows, MaxRows)}

----------------------------------------------------------------------------
(* The script: every widget event reruns it from the top.  An exception     *)
(* in a tab ends the run, and the tabs below it are not rendered.           *)

\* the widgets' default values
DefaultState(crop_df, land_df, index_df) ==
    [crop_start |-> FirstOption(crop_df), crop_end |-> LastOption(crop_df),
     crop_zoom |-> "Full View", selected_crops |-> crops_of_interest,
     land_start |-> FirstOption(land_df), land_end |-> LastOption(land_df),
     land_zoom |-> "Full View", selected_states |-> states_of_interest,
     index_start |-> FirstOption(index_df), index_end |-> LastOption(index_df),
     index_zoom |-> "Full View",
     combined_start |-> 1997, combined_end |-> 2025, combined_zoom |-> "Custom Range"]

Stopped(t) == t.outcome \in {"raised", "not_run"}

\* one run of the script under the widget values ss: the four tabs' outputs,
\* each "with tab:" block run after the ones above it
Script(crop_df, land_df, index_df, ss) ==
    LET With4(t1, t2, t3) ==
            <<t1, t2, t3,
              IF Stopped(t3) THEN NotRun4 ELSE Tab4(crop_df, land_df, index_df, ss)>>
        With3(t1, t2) ==
            With4(t1, t2, IF Stopped(t2) THEN NotRun ELSE Tab3(index_df, ss))
        With2(t1) ==
            With3(t1, IF Stopped(t1) THEN NotRun ELSE Tab2(land_df, ss))
    IN  With2(Tab1(crop_df, ss))

\* a widget event: the new value is stored and the script reruns
Rerun(ss) ==
    \E out \in {Script(crop_prices_df, cropland_values_df, price_index_df, ss)} :
        /\ session_state' = ss
        /\ tab1' = out[1]
        /\ tab2' = out[2]
        /\ tab3' = out[3]
        /\ tab4' = out[4]
        /\ UNCHANGED <<crop_prices_df, cropland_values_df, price_index_df,
                       active_tab, load_error>>

\* the page load when the cropland loader raises: the script ends at the load,
\* after the crop prices were read, and nothing is rendered
LoadFails(tab, csv) ==
    /\ LandValueRaises(csv[2])
    /\ load_error = TRUE
    /\ active_tab = tab
    /\ crop_prices_df = load_crop_prices(csv[1])
    /\ cropland_values_df = <<>>
    /\ price_index_df = <<>>
    /\ session_state = DefaultState(<<>>, <<>>, <<>>)
    /\ tab1 = NotRun
    /\ tab2 = NotRun
    /\ tab3 = NotRun
    /\ tab4 = NotRun4

\* the page load: the files are read, and the script runs under the defaults
LoadRuns(tab, csv) ==
    /\ ~LandValueRaises(csv[2])
    /\ load_error = FALSE
    /\ \E crop_df \in {load_crop_prices(csv[1])},
          land_df \in {load_cropland_values(csv[2])},
          index_df \in {load_price_received_index(csv[3])} :
         \E ss \in {DefaultState(crop_df, land_df, index_df)} :
           \E out \in {Script(crop_df, land_df, index_df, ss)} :
             /\ active_tab = tab
             /\ crop_prices_df = crop_df
             /\ cropland_values_df = land_df
             /\ price_index_df = index_df
             /\ session_state = ss
             /\ tab1 = out[1]
             /\ tab2 = out[2]
             /\ tab3 = out[3]
             /\ tab4 = out[4]

\* a session is followed on the tab the user opened
InitTab(tab) ==
    \E csv \in CsvFiles(tab) : LoadFails(tab, csv) \/ LoadRuns(tab, csv)

\* the values the multiselects are given: every pick, in every order, from two
\* of the crops and from two of the states, and the default of all of them
CropSelections == Selections({"CORN", "WHEAT"}) \cup {crops_of_interest}
StateSelections == Selections({"KENTUCKY", "OHIO"}) \cup {states_of_interest}

\* a widget is on the page once the script has reached its tab
OnPage(tab, t) == active_tab = tab /\ t.outcome # "not_run"

SetCropStart ==
    /\ OnPage(1, tab1)
    /\ \E y \in YearOptions(crop_prices_df) \ {session_state.crop_start} :
          Rerun([session_state EXCEPT !.crop_start = y])

SetCropEnd ==
    /\ OnPage(1, tab1)
    /\ \E y \in YearOptions(crop_prices_df) \ {session_state.crop_end} :
          Rerun([session_state EXCEPT !.crop_end = y])

SetCropZoom ==
    /\ OnPage(1, tab1)
    /\ \E z \in CropZoomOptions \ {session_state.crop_zoom} :
          Rerun([session_state EXCEPT !.crop_zoom = z])

SetSelectedCrops ==
    /\ OnPage(1, tab1)
    /\ \E sel \in CropSelections \ {session_state.selected_crops} :
          Rerun([session_state EXCEPT !.selected_crops = sel])

SetLandStart ==
    /\ OnPage(2, tab2)
    /\ \E y \in YearOptions(cropland_values_df) \ {session_state.land_start} :
          Rerun([session_state EXCEPT !.land_start = y])

SetLandEnd ==
    /\ OnPage(2, tab2)
    /\ \E y \in YearOptions(cropland_values_df) \ {session_state.land_end} :
          Rerun([session_state EXCEPT !.land_end = y])

SetLandZoom ==
    /\ OnPage(2, tab2)
    /\ \E z \in LandZoomOptions \ {session_state.land_zoom} :
          Rerun([session_state EXCEPT !.land_zoom = z])

SetSelectedStates ==
    /\ OnPage(2, tab2)
    /\ \E sel \in StateSelections \ {session_state.selected_states} :
          Rerun([session_state EXCEPT !.selected_states = sel])

SetIndexStart ==
    /\ OnPage(3, tab3)
    /\ \E y \in YearOptions(price_index_df) \ {session_state.index_start} :
          Rerun([session_state EXCEPT !.index_start = y])

SetIndexEnd ==
    /\ OnPage(3, tab3)
    /\ \E y \in YearOptions(price_index_df) \ {session_state.index_end} :
          Rerun([session_state EXCEPT !.index_end = y])

SetIndexZoom ==
    /\ OnPage(3, tab3)
    /\ \E z \in IndexZoomOptions \ {session_state.index_zoom} :
          Rerun([session_state EXCEPT !.index_zoom = z])

SetCombinedStart ==
    /\ OnPage(4, tab4)
    /\ \E y \in (CombinedYearOptions \cap CombinedYearSamples)
                  \ {session_state.combined_start} :
          Rerun([session_state EXCEPT !.combined_start = y])

SetCombinedEnd ==
    /\ OnPage(4, tab4)
    /\ \E y \in (CombinedYearOptions \cap CombinedYearSamples)
                  \ {session_state.combined_end} :
          Rerun([session_state EXCEPT !.combined_end = y])

SetCombinedZoom ==
    /\ OnPage(4, tab4)
    /\ \E z \in CombinedZoomOptions \ {session_state.combined_zoom} :
          Rerun([session_state EXCEPT !.combined_zoom = z])

Init == \E tab \in 1..4 : InitTab(tab)

Next1 == SetCropStart \/ SetCropEnd \/ SetCropZoom \/ SetSelectedCrops
Next2 == SetLandStart \/ SetLandEnd \/ SetLandZoom \/ SetSelectedStates
Next3 == SetIndexStart \/ SetIndexEnd \/ SetIndexZoom
Next4 == SetCombinedStart \/ SetCombinedEnd \/ SetCombinedZoom

Next == Next1 \/ Next2 \/ Next3 \/ Next4

\* sessions on any of the four tabs
Spec == Init /\ [][Next]_vars

\* sessions on one tab
Init1 == InitTab(1)
Init2 == InitTab(2)
Init3 == InitTab(3)
Init4 == InitTab(4)
Spec1 == Init1 /\ [][Next1]_vars
Spec2 == Init2 /\ [][Next2]_vars
Spec3 == Init3 /\ [][Next3]_vars
Spec4 == Init4 /\ [][Next4]_vars

----------------------------------------------------------------------------
(* Properties *)

Rendered(t) == t.outcome \in {"chart", "error"}
Rendered4 == tab4.outcome \in {"combined", "insufficient"}
ResolvedRange(t) == <<t.start_year, t.end_year>>
InRange(t, y) == t.start_year <= y /\ y <= t.end_year

\* C1: in the three per-series tabs a preset other than "Custom Range" fixes the
\* range whatever the Start Year and End Year pickers hold, and "Custom Range"
\* uses the pickers' values unchanged
C1_PresetOverridesPickers ==
    /\ Rendered(tab1) =>
         IF session_state.crop_zoom = "Custom Range"
         THEN ResolvedRange(tab1) = <<session_state.crop_start, session_state.crop_end>>
         ELSE \A s, e \in YearOptions(crop_prices_df) :
                 CropRange(crop_prices_df, session_state.crop_zoom, s, e)
                     = ResolvedRange(tab1)
    /\ Rendered(tab2) =>
         IF session_state.land_zoom = "Custom Range"
         THEN ResolvedRange(tab2) = <<session_state.land_start, session_state.land_end>>
         ELSE \A s, e \in YearOptions(cropland_values_df) :
                 LandRange(cropland_values_df, session_state.land_zoom, s, e)
                     = ResolvedRange(tab2)
    /\ Rendered(tab3) =>
         IF session_state.index_zoom = "Custom Range"
         THEN ResolvedRange(tab3) = <<session_state.index_start, session_state.index_end>>
         ELSE \A s, e \in YearOptions(price_index_df) :
                 IndexRange(price_index_df, session_state.index_zoom, s, e)
                     = ResolvedRange(tab3)

\* C1 witness: "Last 10 Years" is on while the pickers hold another range
C1_Witness ==
    /\ Rendered(tab1)
    /\ session_state.crop_zoom = "Last 10 Years"
    /\ session_state.crop_start > session_state.crop_end
    /\ tab1.start_year # session_state.crop_start
    /\ tab1.end_year # session_state.crop_end

\* the number of years N of a "Last N Years" preset, 0 for the other presets
LastN(zoom) ==
    IF zoom = "Last 5 Years" THEN 5
    ELSE IF zoom = "Last 10 Years" THEN 10
    ELSE IF zoom = "Last 15 Years" THEN 15
    ELSE IF zoom = "Last 20 Years" THEN 20
    ELSE 0

IsLastN(t, zoom, df) ==
    LastN(zoom) > 0 =>
        /\ t.end_year = SetMax(Years(df))
        /\ t.start_year = SetMax(Years(df)) - (LastN(zoom) - 1)

\* C2: under a "Last N Years" preset the range ends at the series' greatest year
\* and spans N years, in the three per-series tabs and in the combined view
C2_LastNYears ==
    /\ Rendered(tab1) => IsLastN(tab1, session_state.crop_zoom, crop_prices_df)
    /\ Rendered(tab2) => IsLastN(tab2, session_state.land_zoom, cropland_values_df)
    /\ Rendered(tab3) => IsLastN(tab3, session_state.index_zoom, price_index_df)
    /\ Rendered4 =>
         /\ IsLastN(tab4, session_state.combined_zoom, crop_prices_df)
         /\ IsLastN(tab4, session_state.combined_zoom, cropland_values_df)
         /\ IsLastN(tab4, session_state.combined_zoom, price_index_df)

\* the claim of C3 for one series: an ordered range inside the series' years
WithinSeries(t, df) ==
    df # <<>> =>
        /\ t.start_year <= t.end_year
        /\ SetMin(Years(df)) <= t.start_year
        /\ t.end_year <= SetMax(Years(df))

\* C3 as claimed: whatever the preset and the pickers, the range used for
\* filtering is ordered and lies within the years of the series it filters
C3_RangeWithinSeries ==
    /\ Rendered(tab1) => WithinSeries(tab1, crop_prices_df)
    /\ Rendered(tab2) => WithinSeries(tab2, cropland_values_df)
    /\ Rendered(tab3) => WithinSeries(tab3, price_index_df)
    /\ Rendered4 =>
         /\ WithinSeries(tab4, crop_prices_df)
         /\ WithinSeries(tab4, cropland_values_df)
         /\ WithinSeries(tab4, price_index_df)

\* what the range of a per-series tab does satisfy, preset by preset
RangeAsResolved(t, zoom, df) ==
    df # <<>> =>
        /\ zoom = "Full View" =>
             /\ t.start_year = SetMin(Years(df))
             /\ t.end_year = SetMax(Years(df))
        /\ LastN(zoom) > 0 =>
             /\ t.start_year <= t.end_year
             /\ t.end_year = SetMax(Years(df))
        /\ zoom = "Since 2010" =>
             /\ t.start_year = 2010
             /\ t.end_year = SetMax(Years(df))
        /\ zoom = "Custom Range" =>
             /\ t.start_year \in Years(df)
             /\ t.end_year \in Years(df)

\* C3 amended: "Full View" gives the ordered range [minYear, maxYear]; "Last N
\* Years" of a per-series tab gives an ordered range ending at maxYear (its start
\* may precede minYear); "Since 2010" gives [2010, maxYear] (ordered or not);
\* "Custom Range" of a per-series tab gives two years of the series (ordered or
\* not); the combined view gives two years of 1990..2025 whatever the series
\* hold, ordered under every preset other than "Custom Range"
C3_RangeAsResolved ==
    /\ Rendered(tab1) => RangeAsResolved(tab1, session_state.crop_zoom, crop_prices_df)
    /\ Rendered(tab2) => RangeAsResolved(tab2, session_state.land_zoom, cropland_values_df)
    /\ Rendered(tab3) => RangeAsResolved(tab3, session_state.index_zoom, price_index_df)
    /\ Rendered4 =>
         /\ tab4.start_year \in 1990..2025
         /\ tab4.end_year \in 1990..2025
         /\ session_state.combined_zoom # "Custom Range" =>
                tab4.start_year <= tab4.end_year

\* C3 witness: "Last 10 Years" over a cropland series shorter than ten years
\* starts before the series does
C3_Witness ==
    /\ Rendered(tab2)
    /\ session_state.land_zoom = "Last 10 Years"
    /\ tab2.start_year < SetMin(Years(cropland_values_df))
    /\ tab2.end_year = SetMax(Years(cropland_values_df))

\* the rows of t.filtered are the rows of df with a year in t's range, each once
ExactlyInRange(t, df) ==
    /\ \A j \in DOMAIN t.filtered :
          t.filtered[j] \in Range(df) /\ InRange(t, t.filtered[j].Year)
    /\ \A i \in DOMAIN df :
          InRange(t, df[i].Year) => df[i] \in Range(t.filtered)
    /\ Len(t.filtered) = Cardinality({i \in DOMAIN df : InRange(t, df[i].Year)})

\* C4: with every key selected (and in the index tab) and an ordered range, the
\* filtered subset holds exactly the rows of the series with a year in the range
C4_FilterExact ==
    /\ ( /\ Rendered(tab1)
         /\ tab1.start_year <= tab1.end_year
         /\ Range(session_state.selected_crops) = Range(crops_of_interest) )
       => ExactlyInRange(tab1, crop_prices_df)
    /\ ( /\ Rendered(tab2)
         /\ tab2.start_year <= tab2.end_year
         /\ Range(session_state.selected_states) = Range(states_of_interest) )
       => ExactlyInRange(tab2, cropland_values_df)
    /\ (Rendered(tab3) /\ tab3.start_year <= tab3.end_year)
       => ExactlyInRange(tab3, price_index_df)

\* C4 witness: all crops selected, and the range keeps one row and drops another
C4_Witness ==
    /\ Rendered(tab1)
    /\ tab1.start_year <= tab1.end_year
    /\ Range(session_state.selected_crops) = Range(crops_of_interest)
    /\ tab1.filtered # <<>>
    /\ Len(tab1.filtered) < Len(crop_prices_df)

\* C5: with no key selected the filtered subset of a categorised series is empty
C5_EmptySelection ==
    /\ (Rendered(tab1) /\ session_state.selected_crops = <<>>) => tab1.filtered = <<>>
    /\ (Rendered(tab2) /\ session_state.selected_states = <<>>) => tab2.filtered = <<>>

\* C5 witness: no crop is selected while the series has rows in the range
C5_Witness ==
    /\ Rendered(tab1)
    /\ session_state.selected_crops = <<>>
    /\ \E i \in DOMAIN crop_prices_df : InRange(tab1, crop_prices_df[i].Year)

\* C6 as claimed: with no key selected and a non-empty series, the tab shows the
\* 'please select at least one' warning and not the 'No ... data available' error
C6_NoSelectionState ==
    /\ ( /\ ~Stopped(tab1)
         /\ crop_prices_df # <<>>
         /\ session_state.selected_crops = <<>> )
       => (tab1.view = "warning" /\ tab1.outcome # "error")
    /\ ( /\ ~Stopped(tab2)
         /\ cropland_values_df # <<>>
         /\ session_state.selected_states = <<>> )
       => (tab2.view = "warning" /\ tab2.outcome # "error")

\* the entry's latest value and year are those of a row of the greatest year
LatestIsGreatestYear(e, data) ==
    /\ e.latest_year = Num(SetMax(Years(data)))
    /\ \E i \in DOMAIN data :
          data[i].Year = SetMax(Years(data)) /\ data[i].Value = e.latest

\* C7 as claimed: in a single view over a non-empty subset, latest and its year
\* are those of the row with the greatest year, whatever the file order
C7_LatestIsGreatestYear ==
    /\ (tab1.view = "single" /\ tab1.filtered # <<>>)
       => LatestIsGreatestYear(tab1.stats[1], tab1.filtered)
    /\ (tab2.view = "single" /\ tab2.filtered # <<>>)
       => LatestIsGreatestYear(tab2.stats[1], tab2.filtered)
    /\ (tab3.view = "single" /\ tab3.filtered # <<>>)
       => LatestIsGreatestYear(tab3.stats[1], tab3.filtered)

\* C8 as claimed: for one state with two or more rows in range, the growth rate is
\* (latest - earliest) / earliest * 100 over the values at the greatest and the
\* smallest year (earliest not 0), whatever the file order
C8_GrowthRate ==
    (tab2.view = "single" /\ Len(tab2.filtered) >= 2) =>
        LET data == tab2.filtered
        IN  \E hi, lo \in DOMAIN data :
              /\ data[hi].Year = SetMax(Years(data))
              /\ data[lo].Year = SetMin(Years(data))
              /\ data[lo].Value.num # 0 =>
                   FEq(tab2.stats[1].growth_rate,
                       FMul(FDiv(FSub(data[hi].Value, data[lo].Value), data[lo].Value),
                            Num(100)))

Statistics == {"latest", "latest_year", "average", "min", "max", "volatility",
               "growth_rate", "peak_year"}

\* every statistic the entry displays is the 'no data' report
AllNoData(e) == \A f \in Statistics : e[f] # Absent => e[f] = NoData

\* C9 as claimed: in a single view over an empty subset every displayed statistic
\* is reported as 'no data', none as a NaN or a placeholder number
C9_EmptySubsetNoData ==
    /\ (tab1.view = "single" /\ tab1.filtered = <<>>) => AllNoData(tab1.stats[1])
    /\ (tab2.view = "single" /\ tab2.filtered = <<>>) => AllNoData(tab2.stats[1])
    /\ Rendered(tab3) /\ tab3.filtered = <<>> => tab3.stats = <<>>

NoneInRange(df) == ~ \E i \in DOMAIN df : InRange(tab4, df[i].Year)

\* C10: in the combined view, when one of the three series has no row in the
\* range the outcome is 'insufficient data overlap' with no trace, scale factor,
\* metric or correlation; a combined view needs rows of all three
C10_AllOrNothing ==
    Rendered4 =>
        /\ ( \/ NoneInRange(crop_prices_df)
             \/ NoneInRange(cropland_values_df)
             \/ NoneInRange(price_index_df) )
           => /\ tab4.outcome = "insufficient"
              /\ tab4.traces = {}
              /\ tab4.land_avg_by_year = <<>>
              /\ tab4.scale_factor = Absent
              /\ tab4.metrics = NoMetrics
              /\ tab4.correlation_years = {}
        /\ tab4.outcome = "combined"
           => /\ ~NoneInRange(crop_prices_df)
              /\ ~NoneInRange(cropland_values_df)
              /\ ~NoneInRange(price_index_df)

\* C10 witness: only the cropland series has no row in the range
C10_Witness ==
    /\ tab4.outcome = "insufficient"
    /\ NoneInRange(cropland_values_df)
    /\ ~NoneInRange(crop_prices_df)
    /\ ~NoneInRange(price_index_df)

\* the years of the range that hold both a corn row and an index row
CornIndexYears ==
    {y \in Years(crop_prices_df) \cap Years(price_index_df) :
        /\ InRange(tab4, y)
        /\ \E i \in DOMAIN crop_prices_df :
              crop_prices_df[i].Year = y /\ crop_prices_df[i].Commodity = "CORN"}

\* C11: in the combined view the corn-vs-index correlation is computed over
\* exactly the years that hold both a corn row and an index row of the range,
\* and with fewer than 2 such years no correlation is reported at all
C11_CorrelationOverCommonYears ==
    Rendered4 =>
        /\ tab4.correlation_years \subseteq CornIndexYears
        /\ tab4.metrics.correlation
           => /\ tab4.correlation_years = CornIndexYears
              /\ Cardinality(CornIndexYears) >= 2
        /\ Cardinality(CornIndexYears) < 2
           => /\ ~tab4.metrics.correlation
              /\ tab4.correlation_years = {}

\* C11 witness: a combined view with corn rows and index rows in the range but
\* a single year common to both, and no correlation on the page
C11_Witness ==
    /\ tab4.outcome = "combined"
    /\ Corn(tab4.crop_combined) # <<>>
    /\ Cardinality(Years(tab4.index_combined)) = 2
    /\ Cardinality(CornIndexYears) = 1
    /\ ~tab4.metrics.correlation


\* C12: no step raises: for every loaded series, the empty one included, every
\* preset, every start and end and every selection, the render pass of each tab
\* runs to completion and ends in a data display or a designated no-data state
C12_NeverRaises ==
    /\ Rendered(tab1)
    /\ Rendered(tab2)
    /\ Rendered(tab3)
    /\ Rendered4

\* the value at the smallest year of a non-empty frame is 0, in each of its rows
EarliestIsZero(data) ==
    \A i \in DOMAIN data :
        data[i].Year = SetMin(Years(data)) => FEq(data[i].Value, Num(0))

\* C13: when one state's growth rate is computed and the earliest value of the
\* subset is 0, the growth rate shown is 'no data' or a finite number: never an
\* infinity, never NaN
C13_GrowthRateZeroEarliest ==
    (tab2.view = "single" /\ Len(tab2.filtered) >= 2 /\ EarliestIsZero(tab2.filtered))
        => tab2.stats[1].growth_rate.kind \in {"num", "nodata"}

\* the cropland rows of the combined view's range, and the greatest of their
\* per-year means
LandInRange == SelectSeq(cropland_values_df, LAMBDA r : InRange(tab4, r.Year))
MaxLandMean == AvgMax(land_avg_by_year(LandInRange))

\* C14: in the combined view the scale factor is evaluated only over a non-zero
\* denominator; when the greatest per-year mean land value of the range is 0, or
\* the range has no land row, the outcome is 'insufficient overlap' and nothing
\* is divided
C14_ScaleFactorGuarded ==
    Rendered4 =>
        /\ (LandInRange = <<>> \/ FEq(MaxLandMean, Num(0)))
           => /\ tab4.outcome = "insufficient"
              /\ tab4.scale_factor = Absent
        /\ tab4.scale_factor # Absent
           => /\ IsNum(MaxLandMean)
              /\ ~FEq(MaxLandMean, Num(0))

\* the years of the rows of a frame that hold its greatest value
YearsOfMax(data) ==
    {data[i].Year : i \in {j \in DOMAIN data :
        /\ IsNum(data[j].Value)
        /\ \A k \in DOMAIN data :
              IsNum(data[k].Value) => ~FLess(data[j].Value, data[k].Value)}}

\* C15: for a non-empty index subset the peak value is the greatest value and
\* the peak year is the smallest year at which it is attained, whatever the
\* order of the rows
C15_PeakFirstByYear ==
    (tab3.view = "single" /\ YearsOfMax(tab3.filtered) # {}) =>
        /\ \E i \in DOMAIN tab3.filtered :
              /\ tab3.filtered[i].Year \in YearsOfMax(tab3.filtered)
              /\ FEq(tab3.stats[1].max, tab3.filtered[i].Value)
        /\ tab3.stats[1].peak_year = Num(SetMin(YearsOfMax(tab3.filtered)))

\* the keys of the statistics entries, in the order they are laid out
Keys(stats) == [i \in DOMAIN stats |-> stats[i].key]

\* every entry holds a latest value, an average, a minimum and a maximum
FourStatistics(stats) ==
    \A i \in DOMAIN stats :
        /\ stats[i].latest # Absent
        /\ stats[i].average # Absent
        /\ stats[i].min # Absent
        /\ stats[i].max # Absent

\* C16 as claimed: for a selection of two or more keys the statistics hold one
\* entry per selected key, in selection order, a key without rows in the range
\* included
C16_OneEntryPerKey ==
    /\ tab1.view = "multi"
       => Keys(tab1.stats) = session_state.selected_crops /\ FourStatistics(tab1.stats)
    /\ tab2.view = "multi"
       => Keys(tab2.stats) = session_state.selected_states /\ FourStatistics(tab2.stats)

\* C16 amended: for a selection of two or more keys the statistics hold one
\* {latest, average, min, max} entry per selected key that has a row in the
\* resolved range, in selection order, and no entry for a key without rows
C16_OneEntryPerKeyWithRows ==
    /\ tab1.view = "multi"
       => /\ Keys(tab1.stats) =
                SelectSeq(session_state.selected_crops,
                    LAMBDA c : \E i \in DOMAIN tab1.filtered :
                                  tab1.filtered[i].Commodity = c)
          /\ FourStatistics(tab1.stats)
    /\ tab2.view = "multi"
       => /\ Keys(tab2.stats) =
                SelectSeq(session_state.selected_states,
                    LAMBDA c : \E i \in DOMAIN tab2.filtered :
                                  tab2.filtered[i].State = c)
          /\ FourStatistics(tab2.stats)

\* C16 witness: two crops selected, the first without rows in the range, the
\* second with rows: one entry only
C16_Witness ==
    /\ tab1.view = "multi"
    /\ Len(session_state.selected_crops) = 2
    /\ Len(tab1.stats) = 1
    /\ tab1.stats[1].key = session_state.selected_crops[2]

\* every row of a loaded series has its year in the window and a value that
\* is a number
NumericInWindow(df, first, last) ==
    \A i \in DOMAIN df :
        /\ df[i].Year \in first..last
        /\ IsNum(df[i].Value)

\* C17: a source row whose Year or Value is not a number is left out by each
\* of the three loaders and makes none of them fail: loading never raises, and
\* every loaded row has a year inside the series' window and a non-NaN value
C17_LoadersDropNonNumeric ==
    /\ ~load_error
    /\ NumericInWindow(crop_prices_df, 1975, 2025)
    /\ NumericInWindow(cropland_values_df, 1997, 2025)
    /\ NumericInWindow(price_index_df, 1990, 2025)

====
